---- MODULE Spec2Model ----
(***************************************************************************)
(* TelTextField (web/src/app/util/TelTextField.tsx): a text field that     *)
(* normalises phone numbers / SIDs as they are typed, debounces the value  *)
(* and validates the debounced value with a remote lookup.                 *)
(*                                                                         *)
(* Strings are sequences of one-character strings, so that the regular     *)
(* expressions and replace() calls of the source are computed character by *)
(* character.                                                              *)
(***************************************************************************)
EXTENDS Integers, Sequences, FiniteSets, TLC

\* ---------------------------------------------------------------- bounds
\* longest raw input string typed into the field
MaxLen == 3

\* DEBOUNCE_DELAY of ../config, in clock ticks
DEBOUNCE_DELAY == 2

\* ------------------------------------------------------------ characters
Digits == {"0", "1", "2", "3", "4", "5", "6", "7", "8", "9"}

Letters ==
    {"a", "b", "c", "d", "e", "f", "g", "h", "i", "j", "k", "l", "m",
     "n", "o", "p", "q", "r", "s", "t", "u", "v", "w", "x", "y", "z",
     "A", "B", "C", "D", "E", "F", "G", "H", "I", "J", "K", "L", "M",
     "N", "O", "P", "Q", "R", "S", "T", "U", "V", "W", "X", "Y", "Z"}

IsDigit(c) == c \in Digits

IsAlnum(c) == c \in Letters \cup Digits

IsSpace(c) == c \in {" ", "\t", "\n", "\r"}

\* characters a user can type: '+', a digit, '(', blank, punctuation, letter
Chars == {"+", "1", "(", " ", "-", "a"}

RawInputs == UNION {[1..k -> Chars] : k \in 0..MaxLen}

\* type InputType = 'tel' | 'sid'; the configured list, without repetition
InputTypeLists == {<<"tel">>, <<"sid">>, <<"tel", "sid">>, <<"sid", "tel">>}

\* values the host form gives the value prop
EmptyStr == <<>>

PlusOnly == <<"+">>

Str123 == <<"1", "2", "3">>

StrSID == <<"M", "G", "a", "b", "c", "1", "2", "3">>

StrPhone == <<"+", "1", "4", "1", "5", "5", "5", "5", "1", "2", "3", "4">>

Values == {EmptyStr, PlusOnly, Str123, StrSID, StrPhone}

VARIABLES
    inputTypes,      \* props.inputTypes
    value,           \* props.value
    disabled,        \* props.disabled
    mounted,         \* the component is mounted
    debouncedValue,  \* useState('')
    timers,          \* timeouts set and not yet fired or cleared
    requested,       \* numbers for which the isValidNumber query was sent
    cache,           \* Apollo cache: number -> phoneNumberInfo.valid
    supersededEarly, \* history: a timeout was cleared before its delay elapsed
    firedStale,      \* history: a timeout of an earlier effect has fired
    input,           \* the raw string the user typed
    hasOnChange,     \* props.onChange is set
    targetValue,     \* e.target.value
    called,          \* props.onChange was called for the event
    onChangeArg,     \* e.target.value as props.onChange received it
    firstOut,        \* what props.onChange received for the typed string
    stage            \* "typed", "called", "refed", "recalled"

vars == <<inputTypes, value, disabled, mounted, debouncedValue, timers,
          requested, cache, supersededEarly, firedStale, input, hasOnChange,
          targetValue, called, onChangeArg, firstOut, stage>>

compVars == <<value, disabled, mounted, debouncedValue, timers, requested,
              cache, supersededEarly, firedStale>>

normVars == <<input, hasOnChange, targetValue, called, onChangeArg, firstOut,
              stage>>

\* ------------------------------------------------------- regular expressions
\* /^\+\d+/
reTel(s) == Len(s) >= 2 /\ s[1] = "+" /\ IsDigit(s[2])

\* /^MG[a-zA-Z0-9]+/
reSID(s) == Len(s) >= 3 /\ s[1] = "M" /\ s[2] = "G" /\ IsAlnum(s[3])

onlyTel == Len(inputTypes) = 1 /\ inputTypes[1] = "tel"

onlySID == Len(inputTypes) = 1 /\ inputTypes[1] = "sid"

includes(list, x) == \E i \in 1..Len(list) : list[i] = x

isSID(s) == includes(inputTypes, "sid") /\ reSID(s)

RECURSIVE trimLeft(_)
trimLeft(s) ==
    IF s # <<>> /\ IsSpace(Head(s)) THEN trimLeft(Tail(s)) ELSE s

\* /^[+\d(]/.test(s.trimLeft())
isLikeTel(s) ==
    LET t == trimLeft(s)
    IN  t # <<>> /\ (t[1] = "+" \/ IsDigit(t[1]) \/ t[1] = "(")

StripNonDigits_keepPlus(s) == SelectSeq(s, LAMBDA c : IsDigit(c) \/ c = "+")

\* s.replace(/[^0-9]/g, '')
StripNonDigits(s) == SelectSeq(s, IsDigit)

\* s.replace(/[^a-zA-Z0-9]/g, '')
StripNonAlnum(s) == SelectSeq(s, IsAlnum)

\* the value handleChange leaves in e.target.value before props.onChange(e)
normalize(s) ==
    IF s = <<>> THEN s
    ELSE IF onlyTel \/ isLikeTel(s) THEN <<"+">> \o StripNonDigits(s)
    ELSE StripNonAlnum(s)

\* ------------------------------------------------------------ handleChange
InitComponentIdle ==
    /\ value = EmptyStr
    /\ disabled = FALSE
    /\ mounted = FALSE
    /\ debouncedValue = EmptyStr
    /\ timers = {}
    /\ requested = {}
    /\ cache = << >>
    /\ supersededEarly = FALSE
    /\ firedStale = FALSE

InitNorm ==
    /\ inputTypes \in InputTypeLists
    /\ input \in RawInputs
    /\ hasOnChange \in BOOLEAN
    /\ targetValue = input
    /\ called = FALSE
    /\ onChangeArg = EmptyStr
    /\ firstOut = EmptyStr
    /\ stage = "typed"
    /\ InitComponentIdle

\* the change event of the typed string, or of the string fed back
handleChange ==
    /\ stage \in {"typed", "refed"}
    /\ stage' = (IF stage = "typed" THEN "called" ELSE "recalled")
    /\ IF ~hasOnChange
       THEN UNCHANGED <<targetValue, called, onChangeArg, firstOut>>
       ELSE /\ targetValue' = normalize(targetValue)
            /\ called' = TRUE
            /\ onChangeArg' = targetValue'
            /\ firstOut' = (IF stage = "typed" THEN targetValue' ELSE firstOut)
    /\ UNCHANGED <<inputTypes, input, hasOnChange>>
    /\ UNCHANGED compVars

\* the host stores what it received and the field reports it again unchanged
FeedBack ==
    /\ stage = "called"
    /\ called
    /\ stage' = "refed"
    /\ targetValue' = onChangeArg
    /\ called' = FALSE
    /\ UNCHANGED <<inputTypes, input, hasOnChange, onChangeArg, firstOut>>
    /\ UNCHANGED compVars

NextNorm == handleChange \/ FeedBack

SpecNorm == InitNorm /\ [][NextNorm]_vars

\* --------------------------------------------------------------- debounce
\* the [value] dependency list: the effect re-runs when value has changed
DepsChanged_none(old, new) == FALSE

DepsChanged(old, new) == old # new

\* setTimeout(() => setDebouncedValue(v), DEBOUNCE_DELAY)
setTimeout(v) == [val |-> v, left |-> DEBOUNCE_DELAY, current |-> TRUE]

clearTimeout_noop(ts) == ts

\* the effect's cleanup, clearTimeout(t): t is the timeout of the last effect
clearTimeout(ts) == {x \in ts : ~x.current}

\* timeouts that survive a cleanup belong to an earlier effect from then on
Outdated(ts) == {[x EXCEPT !.current = FALSE] : x \in ts}

\* ------------------------------------------------------------- validation
skipValidation_noSID ==
    \/ debouncedValue = <<>> \/ disabled \/ ~includes(inputTypes, "tel")
    \/ onlyTel /\ ~reTel(debouncedValue)
    \/ onlySID

skipValidation_noTel ==
    \/ debouncedValue = <<>> \/ disabled \/ ~includes(inputTypes, "tel")
    \/ isSID(debouncedValue)
    \/ onlySID

skipValidation ==
    \/ debouncedValue = <<>> \/ disabled \/ ~includes(inputTypes, "tel")
    \/ onlyTel /\ ~reTel(debouncedValue)
    \/ isSID(debouncedValue)
    \/ onlySID

\* useQuery(isValidNumber, {variables: {number: debouncedValue}, skip}):
\* data is the cached result for the current number, absent when skipped
hasData == ~skipValidation /\ debouncedValue \in DOMAIN cache

\* Boolean(data?.phoneNumberInfo?.valid)
valid == hasData /\ cache[debouncedValue]

ValidationState ==
    IF ~hasData THEN "unknown" ELSE IF valid THEN "valid" ELSE "invalid"

adornOf_ignoreDisabled(v, dis, sid, ok) ==
    IF v = <<>> \/ sid THEN "none" ELSE IF ok THEN "Check" ELSE "Close"

adornOf(v, dis, sid, ok) ==
    IF v = <<>> \/ sid \/ dis THEN "none"
    ELSE IF ok THEN "Check" ELSE "Close"

adorn == adornOf(value, disabled, isSID(value), valid)

\* a render with cache-first fetch policy sends the query for the current
\* number unless it is skipped or the number was already requested
Render ==
    requested' = IF mounted' /\ ~skipValidation' /\ debouncedValue' \notin requested
                 THEN requested \cup {debouncedValue'}
                 ELSE requested

\* ---------------------------------------------------------------- component
InitNormIdle ==
    /\ input = EmptyStr
    /\ hasOnChange = FALSE
    /\ targetValue = EmptyStr
    /\ called = FALSE
    /\ onChangeArg = EmptyStr
    /\ firstOut = EmptyStr
    /\ stage = "idle"

\* first mount: debouncedValue is '', the effect has run once
Init ==
    /\ inputTypes \in InputTypeLists
    /\ value \in Values
    /\ disabled \in BOOLEAN
    /\ mounted = TRUE
    /\ debouncedValue = EmptyStr
    /\ timers = {setTimeout(value)}
    /\ requested = {}
    /\ cache = << >>
    /\ supersededEarly = FALSE
    /\ firedStale = FALSE
    /\ InitNormIdle

\* the host gives the field another value
SetValue(v) ==
    /\ mounted
    /\ v # value
    /\ value' = v
    /\ IF DepsChanged(value, v)
       THEN /\ timers' = Outdated(clearTimeout(timers)) \cup {setTimeout(v)}
            /\ supersededEarly' =
                  (supersededEarly \/ \E x \in timers : x.current /\ x.left > 0)
       ELSE UNCHANGED <<timers, supersededEarly>>
    /\ UNCHANGED <<inputTypes, disabled, mounted, debouncedValue, cache,
                   firedStale>>
    /\ Render
    /\ UNCHANGED normVars

SetDisabled ==
    /\ mounted
    /\ disabled' = ~disabled
    /\ UNCHANGED <<inputTypes, value, mounted, debouncedValue, timers, cache,
                   supersededEarly, firedStale>>
    /\ Render
    /\ UNCHANGED normVars

SetInputTypes(l) ==
    /\ mounted
    /\ l # inputTypes
    /\ inputTypes' = l
    /\ UNCHANGED <<value, disabled, mounted, debouncedValue, timers, cache,
                   supersededEarly, firedStale>>
    /\ Render
    /\ UNCHANGED normVars

\* one unit of time passes
Tick ==
    /\ \E x \in timers : x.left > 0
    /\ timers' = {[x EXCEPT !.left = IF x.left > 0 THEN x.left - 1 ELSE 0] :
                     x \in timers}
    /\ UNCHANGED <<inputTypes, value, disabled, mounted, debouncedValue,
                   requested, cache, supersededEarly, firedStale>>
    /\ UNCHANGED normVars

\* a timeout fires once its delay has elapsed: setDebouncedValue(value)
Fire ==
    \E x \in timers :
        /\ x.left = 0
        /\ timers' = timers \ {x}
        /\ debouncedValue' = x.val
        /\ firedStale' = (firedStale \/ ~x.current)
        /\ UNCHANGED <<inputTypes, value, disabled, mounted, cache,
                       supersededEarly>>
        /\ Render
        /\ UNCHANGED normVars

\* the phoneNumberInfo query of number k returns valid = r
LookupReturns(k, r) ==
    /\ k \in requested
    /\ k \notin DOMAIN cache
    /\ cache' = cache @@ (k :> r)
    /\ UNCHANGED <<inputTypes, value, disabled, mounted, debouncedValue,
                   timers, requested, supersededEarly, firedStale>>
    /\ UNCHANGED normVars

Unmount ==
    /\ mounted
    /\ mounted' = FALSE
    /\ timers' = Outdated(clearTimeout(timers))
    /\ UNCHANGED <<inputTypes, value, disabled, debouncedValue, requested,
                   cache, supersededEarly, firedStale>>
    /\ UNCHANGED normVars

Next ==
    \/ \E v \in Values : SetValue(v)
    \/ SetDisabled
    \/ \E l \in InputTypeLists : SetInputTypes(l)
    \/ Tick
    \/ Fire
    \/ \E k \in Values, r \in BOOLEAN : LookupReturns(k, r)
    \/ Unmount

Spec == Init /\ [][Next]_vars

\* timeouts fire: time passes and a due timeout runs
FairSpec == Spec /\ WF_vars(Tick) /\ WF_vars(Fire)

\* ------------------------------------------------------------------ claims
AllAlnum(s) == \A i \in 1..Len(s) : IsAlnum(s[i])

PlusThenDigits(s) ==
    /\ Len(s) >= 1
    /\ s[1] = "+"
    /\ \A i \in 2..Len(s) : IsDigit(s[i])

\* C1: in sid-only mode, with a change callback, what handleChange passes to
\* onChange for a non-empty input consists of ASCII letters and digits only.
C1_SidOnlyAlnum ==
    (called /\ onlySID /\ input # <<>>) => AllAlnum(onChangeArg)

\* C2: in tel-only mode, with a change callback, what handleChange passes to
\* onChange for a non-empty input is one '+' followed by digits only.
C2_TelOnlyPlusDigits ==
    (called /\ onlyTel /\ input # <<>>) => PlusThenDigits(onChangeArg)

\* an input with two '+' signs and a letter went through handleChange
C2_Witness ==
    /\ stage = "called"
    /\ called
    /\ onlyTel
    /\ input = <<"+", "a", "+">>
    /\ onChangeArg = <<"+">>

\* C3: normalization is idempotent: in every mode, what onChange receives
\* when the output for a non-empty input is fed back equals that output.
C3_Idempotent ==
    (stage = "recalled" /\ called /\ input # <<>>) => onChangeArg = firstOut

\* C4: a timeout whose value was replaced before it fired never sets
\* debouncedValue: no timeout of an earlier effect is pending or has fired.
C4_Superseded ==
    /\ \A x \in timers : x.current
    /\ ~firedStale

\* value changed twice within the delay and the last value was debounced
C4_Witness ==
    /\ supersededEarly
    /\ mounted
    /\ timers = {}
    /\ debouncedValue = value
    /\ debouncedValue = StrPhone

IndicatorFor(identifier) ==
    IF value = <<>> \/ identifier \/ disabled THEN "none"
    ELSE IF ValidationState = "valid" THEN "Check"
    ELSE "Close"

\* C6 (as stated): no indicator when value is empty, matches the identifier
\* pattern whatever the mode, or the field is disabled; otherwise Check when
\* the validation state is valid, Close when it is invalid or unknown.
C6_IndicatorAnyMode == adorn = IndicatorFor(reSID(value))

\* C6 (amended): as above, but the identifier pattern suppresses the
\* indicator only when the mode includes 'sid'.
C6_Indicator ==
    adorn = IndicatorFor(reSID(value) /\ includes(inputTypes, "sid"))

\* an identifier in a tel-only field is marked invalid
C6_Witness ==
    /\ onlyTel
    /\ ~disabled
    /\ value = StrSID
    /\ adorn = "Close"

SkipConditions ==
    \/ debouncedValue = <<>>
    \/ disabled
    \/ \A i \in 1..Len(inputTypes) : inputTypes[i] # "tel"
    \/ /\ inputTypes = <<"tel">>
       /\ ~(Len(debouncedValue) >= 2 /\ debouncedValue[1] = "+"
                                     /\ debouncedValue[2] \in Digits)
    \/ reSID(debouncedValue) /\ \E i \in 1..Len(inputTypes) : inputTypes[i] = "sid"
    \/ inputTypes = <<"sid">>

\* C7: the lookup is skipped exactly when one of the six skip conditions
\* holds, and otherwise a lookup keyed by debouncedValue has been issued;
\* (tel-only, '123') and (mixed, 'MGabc123') are skipped, and
\* (tel-only, '+14155551234') is not.
C7_SkipTable ==
    /\ skipValidation <=> SkipConditions
    /\ ~skipValidation => debouncedValue \in requested
    /\ (onlyTel /\ debouncedValue = Str123) => skipValidation
    /\ (Len(inputTypes) = 2 /\ debouncedValue = StrSID) => skipValidation
    /\ (onlyTel /\ ~disabled /\ debouncedValue = StrPhone) => ~skipValidation

\* a phone number was debounced in tel-only mode and its lookup sent
C7_Witness ==
    /\ onlyTel
    /\ ~disabled
    /\ debouncedValue = StrPhone
    /\ ~skipValidation
    /\ StrPhone \in requested

\* C8: at most one timeout is pending; after unmount none is pending and
\* debouncedValue is not modified again.
C8_OneTimer ==
    /\ [](Cardinality(timers) <= 1 /\ (~mounted => timers = {}))
    /\ [][~mounted => debouncedValue' = debouncedValue]_vars

\* the component was unmounted while a timeout was pending, after a change
\* of value had already replaced one
C8_Witness ==
    /\ ~mounted
    /\ supersededEarly
    /\ debouncedValue # value
    /\ timers = {}

\* C9: if the component stays mounted and value stops changing,
\* debouncedValue eventually equals value; debouncedValue only takes the
\* value a due timeout was scheduled with, which is the value of then.
C9_Settles ==
    /\ \A v \in Values :
          <>[](mounted /\ value = v) => <>[](debouncedValue = v)
    /\ [][debouncedValue' # debouncedValue =>
            \E x \in timers :
                x.left = 0 /\ x.val = debouncedValue' /\ x.val = value]_vars

\* the value went back to the empty string and was debounced
C9_Witness ==
    /\ mounted
    /\ requested # {}
    /\ value = EmptyStr
    /\ debouncedValue = EmptyStr
    /\ timers = {}

\* C10: the valid indicator is shown only while value equals the debounced
\* value whose lookup returned valid.
C10_CheckIsCurrent == adorn = "Check" => value = debouncedValue

====
